---- MODULE Spec2Model ----
(***************************************************************************)
(* A model of src/flappy_bird.py: Config, Bird, Wall, WallPair and Game.   *)
(*                                                                         *)
(* Units.  Bird.y, Bird.speed_y, gravity and jump_strength are Python      *)
(* floats with one decimal digit in every configuration considered; they   *)
(* are held here in TENTHS of a pixel (gravity 0.4 is 4, jump_strength -6  *)
(* is -60).  Every pygame.Rect field is an integer number of pixels: an    *)
(* assignment of a float to a Rect field truncates toward zero (ToInt).    *)
(* Wall.x, the window size and all widths and heights are integers.        *)
(***************************************************************************)
EXTENDS Integers, Sequences, FiniteSets, TLC

VARIABLES
    source,   \* what is at Config.config_path: kind "absent", "unreadable",
              \* "malformed", or "file" with the settings of the file
    data,     \* Config.data: the dict load_config returned
    pc,       \* position in the program: "start", "loaded", "loop" (inside
              \* Game.run), "done", "aborted" (an exception ended it)
    running,  \* Game.running
    game,     \* the fields of Game that the game logic reads and writes
    last,     \* the kind of the last step taken
    prev,     \* the value of game before the last step
    spawned,  \* number of WallPair objects created since the last restart
    calls     \* calls made so far on the object of a single-object
              \* specification, by method

vars == <<source, data, pc, running, game, last, prev, spawned, calls>>

(***************************************************************************)
(* Bounds of the model.                                                    *)
(***************************************************************************)
\* WallPair objects created per game (between two restarts)
MaxSpawns == 2

(***************************************************************************)
(* Numbers.                                                                *)
(***************************************************************************)
\* an integer number of pixels as a float, in tenths
Tenths(n) == n * 10

\* a float (in tenths) stored into a pygame.Rect field: truncation toward 0
ToInt(f) == IF f >= 0 THEN f \div 10 ELSE -((-f) \div 10)

(***************************************************************************)
(* Config                                                                  *)
(***************************************************************************)
\* dict.get(key, default) on the settings read from the configuration file;
\* the two-level lookup config.get(section).get(key, default) is flattened
\* to one key per setting.
Lookup(d, key, default) == IF key \in DOMAIN d THEN d[key] ELSE default

\* the dict {}
EmptyConfig == [k \in {} |-> 0]

\* Config.load_config: open() raises FileNotFoundError when nothing is at
\* config_path, and that exception alone is caught; another OSError of
\* open() (no permission, a directory) and the ValueError of json.load on
\* text that is not JSON leave the function as exceptions.
LoadConfig(src) ==
    IF src.kind = "file" THEN [raised |-> FALSE, value |-> src.settings]
    ELSE IF src.kind = "absent" THEN [raised |-> FALSE, value |-> EmptyConfig]
    ELSE [raised |-> TRUE, value |-> EmptyConfig]

\* A small bird_config.json: a 6 x 8 window, a 2 x 2 bird falling with
\* gravity 0.5, walls one pixel wide with a gap of 4.
SmallFile ==
    [ window_width  |-> 6,  window_height |-> 8,
      gravity       |-> 5,  jump_strength |-> -15,
      bird_width    |-> 2,  bird_height   |-> 2,
      start_x       |-> 2,
      wall_speed    |-> 1,  wall_width    |-> 1,  wall_height |-> 8,
      gap_height    |-> 4,  min_height    |-> 2,  max_height  |-> 3 ]

(***************************************************************************)
(* pygame.Rect                                                             *)
(***************************************************************************)
Rect(x, y, w, h) == [x |-> x, y |-> y, w |-> w, h |-> h]
Left(r)   == r.x
Right(r)  == r.x + r.w
Top(r)    == r.y
Bottom(r) == r.y + r.h

\* Rect.colliderect for rectangles of positive size: the interiors overlap
\* (rectangles that only share an edge do not collide)
CollideRect(a, b) ==
    /\ Left(a) < Right(b) /\ Right(a) > Left(b)
    /\ Top(a) < Bottom(b) /\ Bottom(a) > Top(b)

(***************************************************************************)
(* Bird                                                                    *)
(***************************************************************************)
\* Bird.__init__: the rect is centred on (x, y)
BirdInit(x, y, d) ==
    LET width  == Lookup(d, "bird_width", 60)
        height == Lookup(d, "bird_height", 35)
    IN  [ x |-> x, y |-> Tenths(y), speed_y |-> 0,
          gravity       |-> Lookup(d, "gravity", 4),
          jump_strength |-> Lookup(d, "jump_strength", -60),
          rect |-> Rect(x - (width \div 2), y - (height \div 2), width, height) ]

\* Bird.update that moves by the old speed before adding gravity to it
BirdUpdate_MoveFirst(b) ==
    LET y == b.y + b.speed_y
    IN  [b EXCEPT !.speed_y = b.speed_y + b.gravity, !.y = y, !.rect.y = ToInt(y)]

\* Bird.update
BirdUpdate(b) ==
    LET v == b.speed_y + b.gravity
        y == b.y + v
    IN  [b EXCEPT !.speed_y = v, !.y = y, !.rect.y = ToInt(y)]

\* Bird.jump
BirdJump(b) == [b EXCEPT !.speed_y = b.jump_strength]

\* Bird.check_bounds that sets y at the bottom edge and leaves the rect
BirdCheckBounds_RectNotClamped(b, screen_height) ==
    IF Top(b.rect) <= 0
    THEN [ bird   |-> [b EXCEPT !.rect.y = 0, !.y = 0, !.speed_y = 0],
           result |-> "top" ]
    ELSE IF Bottom(b.rect) >= screen_height
    THEN [ bird   |-> [b EXCEPT !.y = Tenths(screen_height - b.rect.h)],
           result |-> "bottom" ]
    ELSE [ bird |-> b, result |-> "None" ]

\* Bird.check_bounds: the bird after the call and the value returned
BirdCheckBounds(b, screen_height) ==
    IF Top(b.rect) <= 0
    THEN [ bird   |-> [b EXCEPT !.rect.y = 0, !.y = 0, !.speed_y = 0],
           result |-> "top" ]
    ELSE IF Bottom(b.rect) >= screen_height
    THEN [ bird   |-> [b EXCEPT !.rect.y = screen_height - b.rect.h,
                                !.y = Tenths(screen_height - b.rect.h)],
           result |-> "bottom" ]
    ELSE [ bird |-> b, result |-> "None" ]

(***************************************************************************)
(* Wall                                                                    *)
(***************************************************************************)
\* Wall.__init__: a flipped (upper) wall has its bottom-left corner at
\* (x, y), a lower wall its top-left corner
WallInit(x, y, d, flip) ==
    LET width  == Lookup(d, "wall_width", 100)
        height == Lookup(d, "wall_height", 500)
    IN  [ x |-> x, y |-> y, speed |-> Lookup(d, "wall_speed", 2),
          rect |-> IF flip THEN Rect(x, y - height, width, height)
                           ELSE Rect(x, y, width, height),
          passed |-> FALSE, flip |-> flip ]

\* Wall.update
WallUpdate(w) == [w EXCEPT !.x = w.x - w.speed, !.rect.x = w.x - w.speed]

\* Wall.is_offscreen that tests the left edge
WallIsOffscreen_LeftEdge(w) == Left(w.rect) < 0

\* Wall.is_offscreen
WallIsOffscreen(w) == Right(w.rect) < 0

\* Wall.check_collision
WallCheckCollision(w, bird_rect) == CollideRect(w.rect, bird_rect)

\* Wall.check_pass without the test of self.passed
WallCheckPass_NoPassedTest(w, bird_rect) ==
    IF Right(w.rect) < Left(bird_rect)
    THEN [wall |-> [w EXCEPT !.passed = TRUE], result |-> TRUE]
    ELSE [wall |-> w, result |-> FALSE]

\* Wall.check_pass: the wall after the call and the value returned
WallCheckPass(w, bird_rect) ==
    IF ~w.passed /\ Right(w.rect) < Left(bird_rect)
    THEN [wall |-> [w EXCEPT !.passed = TRUE], result |-> TRUE]
    ELSE [wall |-> w, result |-> FALSE]

(***************************************************************************)
(* WallPair                                                                *)
(***************************************************************************)
\* random.randint taken for a range that leaves out min_height
WallHeights_AboveMin(d) ==
    (Lookup(d, "min_height", 100) + 1) .. (Lookup(d, "max_height", 400) + 1)

\* the values random.randint(min_height, max_height) can return
WallHeights(d) ==
    Lookup(d, "min_height", 100) .. Lookup(d, "max_height", 400)

\* WallPair.__init__, for the value wall_height drawn by random.randint;
\* id stands for the identity of the object (list.remove compares by it)
WallPairInit(id, x, screen_height, d, wall_height) ==
    LET gap_height == Lookup(d, "gap_height", 200)
    IN  [ id |-> id,
          gap_height  |-> gap_height,
          min_height  |-> Lookup(d, "min_height", 100),
          max_height  |-> Lookup(d, "max_height", 400),
          wall_height |-> wall_height,
          top_wall    |-> WallInit(x, wall_height, d, TRUE),
          bottom_wall |-> WallInit(x, wall_height + gap_height, d, FALSE),
          scored |-> FALSE ]

\* WallPair.update that moves the upper wall only
WallPairUpdate_TopOnly(p) == [p EXCEPT !.top_wall = WallUpdate(p.top_wall)]

\* WallPair.update
WallPairUpdate(p) ==
    [p EXCEPT !.top_wall = WallUpdate(p.top_wall),
              !.bottom_wall = WallUpdate(p.bottom_wall)]

\* WallPair.check_collisions that looks at the upper wall only
WallPairCheckCollisions_TopOnly(p, bird_rect) ==
    WallCheckCollision(p.top_wall, bird_rect)

\* WallPair.check_collisions
WallPairCheckCollisions(p, bird_rect) ==
    \/ WallCheckCollision(p.top_wall, bird_rect)
    \/ WallCheckCollision(p.bottom_wall, bird_rect)

\* WallPair.check_pass that returns True without setting self.scored
WallPairCheckPass_ScoredNotSet(p, bird_rect) ==
    IF p.scored THEN [pair |-> p, result |-> FALSE]
    ELSE
      LET t == IF ~p.top_wall.passed
               THEN WallCheckPass(p.top_wall, bird_rect)
               ELSE [wall |-> p.top_wall, result |-> FALSE]
      IN  IF t.result
          THEN [pair |-> [p EXCEPT !.top_wall = t.wall], result |-> TRUE]
          ELSE
            LET u == IF ~p.bottom_wall.passed
                     THEN WallCheckPass(p.bottom_wall, bird_rect)
                     ELSE [wall |-> p.bottom_wall, result |-> FALSE]
            IN  [ pair   |-> [p EXCEPT !.bottom_wall = u.wall],
                  result |-> u.result ]

\* WallPair.check_pass without the test of self.scored
WallPairCheckPass_NoScoredTest(p, bird_rect) ==
    LET t == IF ~p.top_wall.passed
             THEN WallCheckPass(p.top_wall, bird_rect)
             ELSE [wall |-> p.top_wall, result |-> FALSE]
    IN  IF t.result
        THEN [ pair   |-> [p EXCEPT !.top_wall = t.wall, !.scored = TRUE],
               result |-> TRUE ]
        ELSE
          LET u == IF ~p.bottom_wall.passed
                   THEN WallCheckPass(p.bottom_wall, bird_rect)
                   ELSE [wall |-> p.bottom_wall, result |-> FALSE]
          IN  [ pair   |-> [p EXCEPT !.bottom_wall = u.wall,
                                     !.scored = p.scored \/ u.result],
                result |-> u.result ]

\* WallPair.check_pass: the pair after the call and the value returned.
\* The loop visits top_wall, then bottom_wall, and returns at the first
\* wall whose check_pass fires.
WallPairCheckPass(p, bird_rect) ==
    IF p.scored THEN [pair |-> p, result |-> FALSE]
    ELSE
      LET t == IF ~p.top_wall.passed
               THEN WallCheckPass(p.top_wall, bird_rect)
               ELSE [wall |-> p.top_wall, result |-> FALSE]
      IN  IF t.result
          THEN [ pair   |-> [p EXCEPT !.top_wall = t.wall, !.scored = TRUE],
                 result |-> TRUE ]
          ELSE
            LET u == IF ~p.bottom_wall.passed
                     THEN WallCheckPass(p.bottom_wall, bird_rect)
                     ELSE [wall |-> p.bottom_wall, result |-> FALSE]
            IN  IF u.result
                THEN [ pair   |-> [p EXCEPT !.top_wall = t.wall,
                                            !.bottom_wall = u.wall,
                                            !.scored = TRUE],
                       result |-> TRUE ]
                ELSE [ pair   |-> [p EXCEPT !.top_wall = t.wall,
                                            !.bottom_wall = u.wall],
                       result |-> FALSE ]

\* WallPair.is_offscreen
WallPairIsOffscreen(p) ==
    WallIsOffscreen(p.top_wall) /\ WallIsOffscreen(p.bottom_wall)

(***************************************************************************)
(* Game                                                                    *)
(***************************************************************************)
WindowWidth(d)  == Lookup(d, "window_width", 600)
WindowHeight(d) == Lookup(d, "window_height", 500)
StartX(d) == Lookup(d, "start_x", 100)
StartY(d) == Lookup(d, "start_y", WindowHeight(d) \div 2)

\* The fields of Game that the game logic reads and writes, after
\* Game.__init__ with configuration d.  bounds_result is the local of
\* update_game_logic as the last call left it; gone holds the WallPair
\* objects created since the last restart and no longer in wall_pairs.
GameInit(d) ==
    [ width |-> WindowWidth(d), height |-> WindowHeight(d),
      game_status |-> "game", score |-> 0,
      bird |-> BirdInit(StartX(d), StartY(d), d),
      wall_pairs |-> <<>>,
      bounds_result |-> "None",
      gone |-> {} ]

\* Game.restart_game without the reset of the score
RestartGame_KeepsScore(g, d) ==
    [g EXCEPT !.game_status = "game",
              !.bird = BirdInit(StartX(d), StartY(d), d),
              !.wall_pairs = <<>>,
              !.gone = {}]

\* Game.restart_game
RestartGame(g, d) ==
    [g EXCEPT !.game_status = "game",
              !.bird = BirdInit(StartX(d), StartY(d), d),
              !.wall_pairs = <<>>,
              !.score = 0,
              !.gone = {}]

\* handle_events, KEYDOWN of K_SPACE
KeySpaceEvent(g, d) ==
    IF g.game_status = "game" THEN [g EXCEPT !.bird = BirdJump(g.bird)]
    ELSE IF g.game_status = "menu" THEN RestartGame(g, d)
    ELSE g

\* handle_events, spawn_wall_event that puts the new pair first in the list
SpawnWallEvent_Prepend(g, p) ==
    IF g.game_status = "game"
    THEN [g EXCEPT !.wall_pairs = <<p>> \o g.wall_pairs]
    ELSE g

\* handle_events, spawn_wall_event without the test of game_status
SpawnWallEvent_AnyStatus(g, p) ==
    [g EXCEPT !.wall_pairs = Append(g.wall_pairs, p)]

\* handle_events, spawn_wall_event; p is the WallPair constructed
SpawnWallEvent(g, p) ==
    IF g.game_status = "game"
    THEN [g EXCEPT !.wall_pairs = Append(g.wall_pairs, p)]
    ELSE g

\* position of the object with identity id in list ps (0 when absent)
IndexOf(ps, id) ==
    IF \E i \in 1..Len(ps) : ps[i].id = id
    THEN CHOOSE i \in 1..Len(ps) : ps[i].id = id
    ELSE 0

\* list.remove of the element at position i
RemoveAt(ps, i) == [j \in 1..(Len(ps) - 1) |-> IF j < i THEN ps[j] ELSE ps[j + 1]]

\* One iteration of the loop over wall_pairs[:] in update_game_logic, for
\* the pair with identity id
WallPairStep(g, id) ==
    LET i    == IndexOf(g.wall_pairs, id)
        p1   == WallPairUpdate(g.wall_pairs[i])
        hit  == WallPairCheckCollisions(p1, g.bird.rect)
        cp   == WallPairCheckPass(p1, g.bird.rect)
        p2   == cp.pair
        off  == WallPairIsOffscreen(p2)
        kept == [g.wall_pairs EXCEPT ![i] = p2]
    IN  [g EXCEPT
           !.game_status = IF hit THEN "menu" ELSE g.game_status,
           !.score       = IF cp.result THEN g.score + 1 ELSE g.score,
           !.wall_pairs  = IF off THEN RemoveAt(kept, i) ELSE kept,
           !.gone        = IF off THEN g.gone \cup {p2} ELSE g.gone]

\* The loop "for wall_pair in self.wall_pairs[:]": ids are the identities of
\* the elements of the copy that are still to be visited
RECURSIVE WallLoop(_, _)
WallLoop(g, ids) ==
    IF ids = <<>> THEN g
    ELSE WallLoop(WallPairStep(g, Head(ids)), Tail(ids))

\* Game.update_game_logic
UpdateGameLogic(g) ==
    IF g.game_status = "game"
    THEN LET b1 == BirdUpdate(g.bird)
             cb == BirdCheckBounds(b1, g.height)
             g1 == [g EXCEPT !.bird = cb.bird,
                             !.bounds_result = cb.result,
                             !.game_status =
                                 IF cb.result = "bottom" THEN "menu"
                                 ELSE g.game_status]
         IN  WallLoop(g1, [i \in 1..Len(g.wall_pairs) |-> g.wall_pairs[i].id])
    ELSE g

(***************************************************************************)
(* The game: Game.run after Game.__init__ has read SmallFile.  Each pass   *)
(* of the loop handles the pending events (any number of KeySpace,         *)
(* SpawnTimer and Quit steps) and then calls update_game_logic once        *)
(* (Frame); the loop condition is read after that call.                    *)
(***************************************************************************)
\* passed counts the calls of check_pass that returned True, on the pair
\* and on each of its walls
NoCalls == [update |-> 0, jump |-> 0, check_bounds |-> 0,
            passed |-> [pair |-> 0, top |-> 0, bottom |-> 0]]

Init ==
    /\ source = [kind |-> "file", settings |-> SmallFile]
    /\ data = LoadConfig(source).value
    /\ pc = "loop"
    /\ running = TRUE
    /\ game = GameInit(SmallFile)
    /\ last = "init"
    /\ prev = GameInit(SmallFile)
    /\ spawned = 0
    /\ calls = NoCalls

\* KEYDOWN of K_SPACE reaches handle_events
KeySpace ==
    /\ pc = "loop"
    /\ game' = KeySpaceEvent(game, data)
    /\ last' = IF game.game_status = "game" THEN "jump" ELSE "restart"
    /\ spawned' = IF game.game_status = "game" THEN spawned ELSE 0
    /\ prev' = game
    /\ UNCHANGED <<source, data, pc, running, calls>>

\* spawn_wall_event reaches handle_events; h is the value random.randint
\* returns when a WallPair is constructed
SpawnTimer ==
    /\ pc = "loop"
    /\ game.game_status = "game" => spawned < MaxSpawns
    /\ \E h \in WallHeights(data) :
          game' = SpawnWallEvent(game,
                      WallPairInit(spawned + 1, game.width, game.height, data, h))
    /\ spawned' = IF game.game_status = "game" THEN spawned + 1 ELSE spawned
    /\ last' = "spawn"
    /\ prev' = game
    /\ UNCHANGED <<source, data, pc, running, calls>>

\* pygame.QUIT reaches handle_events
Quit ==
    /\ pc = "loop"
    /\ running
    /\ running' = FALSE
    /\ last' = "quit"
    /\ prev' = game
    /\ UNCHANGED <<source, data, pc, game, spawned, calls>>

\* update_game_logic, and the test of self.running that follows it
Frame ==
    /\ pc = "loop"
    /\ game' = UpdateGameLogic(game)
    /\ pc' = IF running THEN "loop" ELSE "done"
    /\ last' = "tick"
    /\ prev' = game
    /\ UNCHANGED <<source, data, running, spawned, calls>>

Next == KeySpace \/ SpawnTimer \/ Quit \/ Frame

Spec == Init /\ [][Next]_vars

(***************************************************************************)
(* Properties of the game (specification Spec).  prev and last make a      *)
(* step visible in the state reached: prev is game before the step.        *)
(***************************************************************************)
\* the WallPair objects of g, in wall_pairs or removed from it
AllPairs(g) == {g.wall_pairs[i] : i \in 1..Len(g.wall_pairs)} \cup g.gone

\* the object with identity id as it is in g
PairOf(g, id) == CHOOSE p \in AllPairs(g) : p.id = id

\* rectangles a and b overlap in both axes
Overlap(a, b) ==
    /\ a.x < b.x + b.w /\ b.x < a.x + a.w
    /\ a.y < b.y + b.h /\ b.y < a.y + a.h

\* pair p, where it stands, touches the bird of g
Touches(p, g) ==
    \/ Overlap(p.top_wall.rect, g.bird.rect)
    \/ Overlap(p.bottom_wall.rect, g.bird.rect)

\* the last step was a call of update_game_logic made in status 'game'
ActiveTick == last = "tick" /\ prev.game_status = "game"

\* C1: the game starts in status 'game'; a tick taken in status 'game'
\* ends in status 'menu' exactly when check_bounds returned 'bottom' or one
\* of the pairs of that tick, after its move, overlaps the bird's rect; no
\* other step (jump, spawn, quit) and no touch of the top edge ends the game.
C1_EndsOnBottomOrCollision ==
    /\ last = "init" => game.game_status = "game"
    /\ ActiveTick =>
         ( game.game_status = "menu" <=>
             \/ game.bounds_result = "bottom"
             \/ \E i \in 1..Len(prev.wall_pairs) :
                   Touches(PairOf(game, prev.wall_pairs[i].id), game) )
    /\ (prev.game_status = "game" /\ last \in {"jump", "spawn", "quit"})
         => game.game_status = "game"

\* C1 witness: a tick ends the game by a collision alone
C1_Witness ==
    /\ ActiveTick /\ game.game_status = "menu"
    /\ game.bounds_result # "bottom"

\* C2: SPACE in status 'menu' leaves status 'game', score 0, no wall pairs
\* and a new bird at start_x, start_y with speed_y 0.
C2_RestartResets ==
    last = "restart" =>
        /\ prev.game_status = "menu"
        /\ game.game_status = "game"
        /\ game.score = 0
        /\ game.wall_pairs = <<>>
        /\ game.bird.x = StartX(data)
        /\ game.bird.y = Tenths(StartY(data))
        /\ game.bird.speed_y = 0

\* C2 witness: a restart from a game with a score, wall pairs and a bird
\* that had moved
C2_Witness ==
    /\ last = "restart"
    /\ prev.score > 0 /\ Len(prev.wall_pairs) > 0
    /\ prev.bird.y # Tenths(StartY(data)) /\ prev.bird.speed_y # 0

\* C3: in status 'menu' a tick, a spawn event and a quit event change
\* nothing of the game; SPACE is the only step that leaves status 'menu',
\* and it is never a jump there.
C3_EndedIsFrozen ==
    prev.game_status = "menu" =>
        /\ last \in {"tick", "spawn", "quit"} => game = prev
        /\ last # "jump"
        /\ game.game_status # "menu" => last = "restart"

\* C3 witness: a tick in status 'menu' with a wall pair in the list and a
\* bird above the floor that is held still
C3_Witness ==
    /\ last = "tick" /\ prev.game_status = "menu"
    /\ Len(prev.wall_pairs) > 0
    /\ prev.bird.rect.y + prev.bird.rect.h < prev.height

\* C4: the score is the number of pairs created since the last restart
\* whose scored flag is set; in a tick the pairs that become scored are the
\* unscored ones whose right edge is now left of the bird's left edge, and
\* the score grows by their number; a scored pair never scores again.
C4_ScoreCountsScoredPairs ==
    /\ game.score = Cardinality({p \in AllPairs(game) : p.scored})
    /\ Cardinality(AllPairs(game)) = spawned
    /\ ActiveTick =>
         /\ \A i \in 1..Len(prev.wall_pairs) :
               LET p == prev.wall_pairs[i]
                   q == PairOf(game, p.id)
               IN  q.scored <=>
                     \/ p.scored
                     \/ q.top_wall.rect.x + q.top_wall.rect.w < game.bird.rect.x
         /\ game.score - prev.score =
               Cardinality({i \in 1..Len(prev.wall_pairs) :
                   /\ ~prev.wall_pairs[i].scored
                   /\ PairOf(game, prev.wall_pairs[i].id).scored})

\* C4 witness: a pair already scored goes through another tick in the list
\* while the other pair scores
C4_Witness ==
    /\ ActiveTick
    /\ game.score = 2 /\ prev.score = 1
    /\ \E i \in 1..Len(prev.wall_pairs) : prev.wall_pairs[i].scored

\* C5 (as claimed): a tick in which check_bounds returns 'bottom' ends the
\* game and does nothing else: no pair moves, scores or is removed.
C5_BottomSkipsWalls ==
    (ActiveTick /\ game.bounds_result = "bottom") =>
        /\ game.game_status = "menu"
        /\ game.wall_pairs = prev.wall_pairs
        /\ game.score = prev.score
        /\ game.gone = prev.gone

\* C6 (as claimed): in a tick, the first pair in list order that collides
\* with the bird stops the loop: it is neither scored nor removed, and every
\* pair after it is left as it was.
C6_CollisionStopsLoop ==
    ActiveTick =>
      \A k \in 1..Len(prev.wall_pairs) :
        ( /\ Touches(WallPairUpdate(prev.wall_pairs[k]), game)
          /\ \A j \in 1..(k - 1) :
                ~Touches(WallPairUpdate(prev.wall_pairs[j]), game) )
        => /\ game.game_status = "menu"
           /\ PairOf(game, prev.wall_pairs[k].id).scored = prev.wall_pairs[k].scored
           /\ PairOf(game, prev.wall_pairs[k].id) \notin game.gone
           /\ \A j \in (k + 1)..Len(prev.wall_pairs) :
                 /\ prev.wall_pairs[j] \notin game.gone
                 /\ PairOf(game, prev.wall_pairs[j].id) = prev.wall_pairs[j]

(***************************************************************************)
(* Start-up (specification SpecConfig): Game.__init__ constructs Config,   *)
(* which calls load_config, and then reads its settings from Config.data.  *)
(***************************************************************************)
\* the settings a configuration file may override
FileKeys == {"window_height", "gravity", "jump_strength", "start_x",
             "wall_speed", "gap_height"}

\* well-formed files: each gives SmallFile's value to some of FileKeys
Files == {[k \in K |-> SmallFile[k]] : K \in SUBSET FileKeys}

Sources ==
    {[kind |-> k, settings |-> EmptyConfig] :
        k \in {"absent", "unreadable", "malformed"}}
    \cup {[kind |-> "file", settings |-> f] : f \in Files}

InitConfig ==
    /\ source \in Sources
    /\ data = EmptyConfig
    /\ pc = "start"
    /\ running = FALSE
    /\ game = GameInit(EmptyConfig)
    /\ last = "init"
    /\ prev = GameInit(EmptyConfig)
    /\ spawned = 0
    /\ calls = NoCalls

\* Config.__init__: self.data = self.load_config(); an exception raised
\* there ends the program
ConfigInit ==
    /\ pc = "start"
    /\ LET r == LoadConfig(source)
       IN  /\ pc' = IF r.raised THEN "aborted" ELSE "loaded"
           /\ data' = r.value
    /\ last' = "load_config"
    /\ UNCHANGED <<source, running, game, prev, spawned, calls>>

\* the rest of Game.__init__
GameConstruct ==
    /\ pc = "loaded"
    /\ game' = GameInit(data)
    /\ running' = TRUE
    /\ pc' = "loop"
    /\ last' = "construct"
    /\ prev' = game
    /\ UNCHANGED <<source, data, spawned, calls>>

NextConfig == ConfigInit \/ GameConstruct

SpecConfig == InitConfig /\ [][NextConfig]_vars

\* C7 (as claimed): load_config never aborts; with nothing, something
\* unreadable or something malformed at config_path it returns {}, and the
\* game is constructed with the built-in defaults, in status 'game'.
C7_LoadNeverAborts ==
    /\ pc # "aborted"
    /\ (source.kind # "file" /\ pc \in {"loaded", "loop"}) => data = EmptyConfig
    /\ (source.kind # "file" /\ pc = "loop") =>
          /\ game.game_status = "game"
          /\ game.width = 600 /\ game.height = 500
          /\ game.bird.gravity = 4 /\ game.bird.jump_strength = -60
          /\ WallInit(0, 0, data, FALSE).speed = 2

(***************************************************************************)
(* Bird.check_bounds alone (specification SpecBounds): one call on a bird  *)
(* as Bird.update leaves it, for any position, speed and screen height.    *)
(***************************************************************************)
\* largest screen height tried
MaxScreenHeight == 9
\* positions tried, in tenths: -MaxDepth .. Tenths(MaxScreenHeight) + MaxDepth
MaxDepth == 25

BoundsSpeeds == {-15, 0, 5, 20}

InitBounds ==
    /\ source = [kind |-> "file", settings |-> SmallFile]
    /\ data = SmallFile
    /\ pc = "loop"
    /\ running = TRUE
    /\ \E h \in 1..MaxScreenHeight,
          y \in (-MaxDepth)..(Tenths(MaxScreenHeight) + MaxDepth),
          v \in BoundsSpeeds :
          game = [GameInit(data) EXCEPT
                     !.height = h,
                     !.bird.y = y, !.bird.speed_y = v, !.bird.rect.y = ToInt(y)]
    /\ last = "init"
    /\ prev = game
    /\ spawned = 0
    /\ calls = NoCalls

CheckBounds ==
    /\ calls.check_bounds = 0
    /\ LET cb == BirdCheckBounds(game.bird, game.height)
       IN  game' = [game EXCEPT !.bird = cb.bird, !.bounds_result = cb.result]
    /\ calls' = [calls EXCEPT !.check_bounds = 1]
    /\ last' = "check_bounds"
    /\ prev' = game
    /\ UNCHANGED <<source, data, pc, running, spawned>>

NextBounds == CheckBounds

SpecBounds == InitBounds /\ [][NextBounds]_vars

\* what C8 says of a call that returned 'top', 'bottom' or None, apart from
\* the bounds on the rect after a clamp
BoundsEffects ==
    /\ game.bounds_result \in {"top", "bottom", "None"}
    /\ game.bounds_result = "top" =>
          game.bird.y = 0 /\ game.bird.rect.y = 0 /\ game.bird.speed_y = 0
    /\ game.bounds_result = "bottom" =>
          game.bird.rect.y + game.bird.rect.h = game.height
    /\ game.bounds_result = "None" => game.bird = prev.bird

\* after a clamp the rect lies within the screen
RectInScreen ==
    /\ 0 <= game.bird.rect.y
    /\ game.bird.rect.y + game.bird.rect.h <= game.height

\* C8 (as claimed): check_bounds returns one of 'top', 'bottom', None; after
\* 'top', y, rect.top and speed_y are 0; after 'bottom', rect.bottom is
\* screen_height; after either, 0 <= rect.top and rect.bottom <=
\* screen_height, for every position and screen height; after None the bird
\* is unchanged.
C8_ClampWithinScreen ==
    last = "check_bounds" =>
        /\ BoundsEffects
        /\ game.bounds_result # "None" => RectInScreen

\* C8 (amended): as claimed, with the rect within the screen after a clamp
\* when the screen is at least as high as the bird.
C8_ClampWithinScreenIfBirdFits ==
    last = "check_bounds" =>
        /\ BoundsEffects
        /\ (game.bounds_result # "None" /\ game.height >= game.bird.rect.h)
              => RectInScreen

\* C8 witness: a bird whose rect reached below the screen is clamped onto
\* the bottom edge of a screen it fits in
C8_Witness ==
    /\ last = "check_bounds" /\ game.bounds_result = "bottom"
    /\ prev.bird.rect.y + prev.bird.rect.h > game.height
    /\ game.height >= game.bird.rect.h

(***************************************************************************)
(* Bird.update and Bird.jump alone (specification SpecGravity): the bird   *)
(* of the default configuration, away from the screen edges.               *)
(***************************************************************************)
\* calls of Bird.update made
MaxUpdates == 7
\* calls of Bird.jump made
MaxJumps == 2

InitGravity ==
    /\ source = [kind |-> "absent", settings |-> EmptyConfig]
    /\ data = LoadConfig(source).value
    /\ pc = "loop"
    /\ running = TRUE
    /\ game = GameInit(data)
    /\ last = "init"
    /\ prev = game
    /\ spawned = 0
    /\ calls = NoCalls

GravityTick ==
    /\ calls.update < MaxUpdates
    /\ game' = [game EXCEPT !.bird = BirdUpdate(game.bird)]
    /\ calls' = [calls EXCEPT !.update = @ + 1]
    /\ last' = "update"
    /\ prev' = game
    /\ UNCHANGED <<source, data, pc, running, spawned>>

JumpCall ==
    /\ calls.jump < MaxJumps
    /\ game' = [game EXCEPT !.bird = BirdJump(game.bird)]
    /\ calls' = [calls EXCEPT !.jump = @ + 1]
    /\ last' = "jump"
    /\ prev' = game
    /\ UNCHANGED <<source, data, pc, running, spawned>>

NextGravity == GravityTick \/ JumpCall

SpecGravity == InitGravity /\ [][NextGravity]_vars

\* C9: Bird.update adds gravity to speed_y and then the new speed_y to y;
\* with gravity 0.4, from speed_y 0, five updates and no jump give speed_y
\* 2.0 and y 6.0 larger; Bird.jump sets speed_y to jump_strength, -6, from
\* any speed_y, and leaves y.  (Floats are in tenths.)
C9_GravityThenMove ==
    /\ last = "update" =>
          /\ game.bird.speed_y = prev.bird.speed_y + 4
          /\ game.bird.y = prev.bird.y + game.bird.speed_y
    /\ (calls.jump = 0 /\ calls.update = 5) =>
          /\ game.bird.speed_y = 20
          /\ game.bird.y - Tenths(StartY(data)) = 60
    /\ last = "jump" =>
          /\ game.bird.speed_y = -60
          /\ game.bird.y = prev.bird.y

\* C9 witness: the fifth update of a bird that never jumped
C9_Witness == last = "update" /\ calls.jump = 0 /\ calls.update = 5

(***************************************************************************)
(* Wall.update alone (specification SpecWall): one WallPair of the default *)
(* configuration created at x = 600, and nothing but its updates.          *)
(***************************************************************************)
\* calls of WallPair.update made
MaxWallUpdates == 355

InitWall ==
    /\ source = [kind |-> "absent", settings |-> EmptyConfig]
    /\ data = LoadConfig(source).value
    /\ pc = "loop"
    /\ running = TRUE
    /\ \E h \in WallHeights(data) :
          game = SpawnWallEvent(GameInit(data),
                     WallPairInit(1, WindowWidth(data), WindowHeight(data), data, h))
    /\ last = "init"
    /\ prev = game
    /\ spawned = 1
    /\ calls = NoCalls

WallTick ==
    /\ calls.update < MaxWallUpdates
    /\ game' = [game EXCEPT !.wall_pairs[1] = WallPairUpdate(@)]
    /\ calls' = [calls EXCEPT !.update = @ + 1]
    /\ last' = "update"
    /\ prev' = game
    /\ UNCHANGED <<source, data, pc, running, spawned>>

NextWall == WallTick

SpecWall == InitWall /\ [][NextWall]_vars

\* the two walls of the pair
WallsOfPair == {game.wall_pairs[1].top_wall, game.wall_pairs[1].bottom_wall}

\* C10 (as claimed): a wall 100 wide created at x = 600 and moved by 2 per
\* update is off-screen after 301 updates and after no fewer.
C10_OffscreenAtTick301 ==
    \A w \in WallsOfPair :
        /\ calls.update = 301 => WallIsOffscreen(w)
        /\ calls.update < 301 => ~WallIsOffscreen(w)

\* C10 (amended): such a wall is off-screen after 351 updates and after no
\* fewer: its right edge, 700 - 2 * updates, is below 0 from then on.
C10_OffscreenAtTick351 ==
    \A w \in WallsOfPair :
        /\ w.rect.w = 100
        /\ w.rect.x = 600 - 2 * calls.update
        /\ calls.update >= 351 => WallIsOffscreen(w)
        /\ calls.update < 351 => ~WallIsOffscreen(w)

\* C10 witness: the 351st update, the first after which the pair is
\* off-screen
C10_Witness ==
    /\ calls.update = 351
    /\ WallPairIsOffscreen(game.wall_pairs[1])
    /\ ~WallPairIsOffscreen(prev.wall_pairs[1])

(***************************************************************************)
(* check_pass alone (specification SpecPass): one WallPair of the small    *)
(* configuration, moved by update and asked check_pass, as a pair or wall  *)
(* by wall, with any bird rect.                                            *)
(***************************************************************************)
\* returns of True counted per object before the calls stop
MaxTrueReturns == 2

\* left edges of the bird rects passed to check_pass
FootprintLefts == 0..(SmallFile.window_width + 2)

Count(b) == IF b THEN 1 ELSE 0

InitPass ==
    /\ source = [kind |-> "file", settings |-> SmallFile]
    /\ data = LoadConfig(source).value
    /\ pc = "loop"
    /\ running = TRUE
    /\ \E h \in WallHeights(data) :
          game = SpawnWallEvent(GameInit(data),
                     WallPairInit(1, WindowWidth(data), WindowHeight(data), data, h))
    /\ last = "init"
    /\ prev = game
    /\ spawned = 1
    /\ calls = NoCalls

PassUpdate ==
    /\ calls.update < MaxUpdates
    /\ game' = [game EXCEPT !.wall_pairs[1] = WallPairUpdate(@)]
    /\ calls' = [calls EXCEPT !.update = @ + 1]
    /\ last' = "update"
    /\ prev' = game
    /\ UNCHANGED <<source, data, pc, running, spawned>>

PassCountsOpen ==
    /\ calls.passed.pair < MaxTrueReturns
    /\ calls.passed.top < MaxTrueReturns
    /\ calls.passed.bottom < MaxTrueReturns

\* WallPair.check_pass(bird_rect); a wall's check_pass returned True inside
\* it exactly when the call set the wall's passed flag
PairCheckPassCall ==
    /\ PassCountsOpen
    /\ \E x \in FootprintLefts :
          LET r  == [game.bird.rect EXCEPT !.x = x]
              p  == game.wall_pairs[1]
              cp == WallPairCheckPass(p, r)
          IN  /\ game' = [game EXCEPT !.bird.rect = r, !.wall_pairs[1] = cp.pair]
              /\ calls' = [calls EXCEPT
                    !.passed.pair = @ + Count(cp.result),
                    !.passed.top = @ + Count(cp.pair.top_wall.passed
                                             /\ ~p.top_wall.passed),
                    !.passed.bottom = @ + Count(cp.pair.bottom_wall.passed
                                                /\ ~p.bottom_wall.passed)]
    /\ last' = "check_pass"
    /\ prev' = game
    /\ UNCHANGED <<source, data, pc, running, spawned>>

\* Wall.check_pass(bird_rect) on one wall of the pair
WallCheckPassCall ==
    /\ PassCountsOpen
    /\ \E x \in FootprintLefts, top \in BOOLEAN :
          LET r  == [game.bird.rect EXCEPT !.x = x]
              p  == game.wall_pairs[1]
              cp == WallCheckPass(IF top THEN p.top_wall ELSE p.bottom_wall, r)
          IN  /\ game' = [game EXCEPT
                    !.bird.rect = r,
                    !.wall_pairs[1] = IF top THEN [p EXCEPT !.top_wall = cp.wall]
                                      ELSE [p EXCEPT !.bottom_wall = cp.wall]]
              /\ calls' = [calls EXCEPT
                    !.passed.top = @ + Count(top /\ cp.result),
                    !.passed.bottom = @ + Count(~top /\ cp.result)]
    /\ last' = "wall_check_pass"
    /\ prev' = game
    /\ UNCHANGED <<source, data, pc, running, spawned>>

NextPass == PassUpdate \/ PairCheckPassCall \/ WallCheckPassCall

SpecPass == InitPass /\ [][NextPass]_vars

\* C11: over the life of a pair, for any bird rects, WallPair.check_pass
\* returns True at most once and each wall's check_pass returns True at most
\* once; a passed flag or the scored flag that is set stays set.
C11_PassAtMostOnce ==
    /\ calls.passed.pair <= 1
    /\ calls.passed.top <= 1
    /\ calls.passed.bottom <= 1
    /\ prev.wall_pairs[1].scored => game.wall_pairs[1].scored
    /\ prev.wall_pairs[1].top_wall.passed => game.wall_pairs[1].top_wall.passed
    /\ prev.wall_pairs[1].bottom_wall.passed
          => game.wall_pairs[1].bottom_wall.passed

\* C11 witness: a pair that has scored is asked again with a bird rect to
\* the right of it, and a wall that has passed is asked again
C11_Witness ==
    /\ last = "wall_check_pass"
    /\ calls.passed = [pair |-> 1, top |-> 1, bottom |-> 1]
    /\ prev.wall_pairs[1].scored
    /\ prev.wall_pairs[1].top_wall.passed /\ prev.wall_pairs[1].bottom_wall.passed
    /\ game.wall_pairs[1].top_wall.rect.x + game.wall_pairs[1].top_wall.rect.w
          < game.bird.rect.x

(***************************************************************************)
(* WallPair.__init__ alone (specification SpecPair): the first spawn event *)
(* of a game, under configurations that set some of gap_height,            *)
(* min_height and max_height and leave the rest to the defaults.           *)
(***************************************************************************)
PairKeys == {"gap_height", "min_height", "max_height"}

PairFiles == {[k \in K |-> SmallFile[k]] : K \in SUBSET PairKeys}

InitPair ==
    /\ \E f \in PairFiles : source = [kind |-> "file", settings |-> f]
    /\ data = LoadConfig(source).value
    /\ pc = "loop"
    /\ running = TRUE
    /\ game = GameInit(data)
    /\ last = "init"
    /\ prev = game
    /\ spawned = 0
    /\ calls = NoCalls

\* the spawn event: WallPair(self.width, self.height, self.config) is
\* appended
CreatePair ==
    /\ pc = "loop" /\ spawned = 0
    /\ WallHeights(data) # {}
    /\ \E h \in WallHeights(data) :
          game' = SpawnWallEvent(game,
                      WallPairInit(1, game.width, game.height, data, h))
    /\ spawned' = 1
    /\ last' = "spawn"
    /\ prev' = game
    /\ UNCHANGED <<source, data, pc, running, calls>>

\* the spawn event when min_height > max_height: random.randint raises
\* ValueError, which nothing catches
CreatePairFails ==
    /\ pc = "loop" /\ spawned = 0
    /\ WallHeights(data) = {}
    /\ pc' = "aborted"
    /\ last' = "spawn"
    /\ prev' = game
    /\ UNCHANGED <<source, data, running, game, spawned, calls>>

NextPair == CreatePair \/ CreatePairFails

SpecPair == InitPair /\ [][NextPair]_vars

\* C12 (as claimed): the gap_height of a created pair lies in
\* [min_height, max_height], under any configuration.
C12_GapInRange ==
    (last = "spawn" /\ pc = "loop") =>
        game.wall_pairs[1].gap_height \in
            game.wall_pairs[1].min_height .. game.wall_pairs[1].max_height

\* C12 (amended): the wall_height of a created pair, which is the bottom
\* edge of its upper wall, lies in [min_height, max_height]; gap_height is
\* the configured value, and under the defaults 200, 100, 400 it lies in
\* that range as well.
C12_WallHeightInRange ==
    (last = "spawn" /\ pc = "loop") =>
        LET p == game.wall_pairs[1]
        IN  /\ p.wall_height \in p.min_height .. p.max_height
            /\ p.top_wall.rect.y + p.top_wall.rect.h = p.wall_height
            /\ p.gap_height = Lookup(data, "gap_height", 200)
            /\ DOMAIN data = {} =>
                  /\ p.gap_height = 200 /\ p.min_height = 100
                  /\ p.max_height = 400
                  /\ p.gap_height \in p.min_height .. p.max_height

\* C12 witness: a pair created with the largest wall_height under a
\* configuration whose gap_height is outside [min_height, max_height]
C12_Witness ==
    /\ last = "spawn" /\ pc = "loop"
    /\ game.wall_pairs[1].wall_height = game.wall_pairs[1].max_height
    /\ game.wall_pairs[1].gap_height > game.wall_pairs[1].max_height

(***************************************************************************)
(* Further properties of the game (specification Spec).                    *)
(***************************************************************************)
\* C13: the two walls of every pair have the same horizontal position, in x
\* and in rect, and the top edge of the lower wall is the bottom edge of the
\* upper wall plus gap_height; this holds after every step, ticks included.
C13_WallsInLockstep ==
    \A p \in AllPairs(game) :
        /\ p.top_wall.x = p.bottom_wall.x
        /\ p.top_wall.rect.x = p.bottom_wall.rect.x
        /\ p.top_wall.rect.x = p.top_wall.x
        /\ p.bottom_wall.rect.y
              = p.top_wall.rect.y + p.top_wall.rect.h + p.gap_height

\* C13 witness: a tick has moved a pair that is still in the list
C13_Witness ==
    /\ ActiveTick
    /\ \E i \in 1..Len(prev.wall_pairs) : \E j \in 1..Len(game.wall_pairs) :
          /\ game.wall_pairs[j].id = prev.wall_pairs[i].id
          /\ game.wall_pairs[j].top_wall.rect.x < prev.wall_pairs[i].top_wall.rect.x

\* C14: the score is a natural number; between restarts it never decreases,
\* it changes only in a tick taken in status 'game', and it never exceeds
\* the number of pairs created since the last restart.
C14_ScoreMonotone ==
    /\ game.score \in Nat
    /\ game.score <= spawned
    /\ last # "restart" => game.score >= prev.score
    /\ (last # "restart" /\ game.score # prev.score) => ActiveTick

\* C14 witness: a tick raises the score to the number of pairs created
C14_Witness ==
    /\ ActiveTick
    /\ game.score = prev.score + 1
    /\ game.score = spawned

Ids(g) == [i \in 1..Len(g.wall_pairs) |-> g.wall_pairs[i].id]

\* C16: the list holds the pairs in the order of their creation, with
\* positions that do not decrease from first to last; a spawn event in
\* status 'game' appends one pair at x = window width; every other step
\* keeps the list or drops pairs from its front.
C16_ListInSpawnOrder ==
    /\ \A i, j \in 1..Len(game.wall_pairs) :
          i < j => /\ game.wall_pairs[i].id < game.wall_pairs[j].id
                   /\ game.wall_pairs[i].top_wall.rect.x
                         <= game.wall_pairs[j].top_wall.rect.x
    /\ (last = "spawn" /\ prev.game_status = "game") =>
          /\ Len(game.wall_pairs) = Len(prev.wall_pairs) + 1
          /\ SubSeq(game.wall_pairs, 1, Len(prev.wall_pairs)) = prev.wall_pairs
          /\ game.wall_pairs[Len(game.wall_pairs)].top_wall.rect.x = game.width
          /\ game.wall_pairs[Len(game.wall_pairs)].bottom_wall.rect.x = game.width
    /\ last # "spawn" =>
          \E k \in 0..Len(prev.wall_pairs) :
              Ids(game) = SubSeq(Ids(prev), k + 1, Len(prev.wall_pairs))

\* C16 witness: a tick removes the first of two pairs and keeps the second
C16_Witness ==
    /\ ActiveTick
    /\ Len(prev.wall_pairs) = 2 /\ Len(game.wall_pairs) = 1
    /\ game.wall_pairs[1].id = prev.wall_pairs[2].id

(***************************************************************************)
(* Falling (specification SpecFall): the game of the small configuration   *)
(* with no spawn event, no quit and at most MaxFallJumps presses of SPACE, *)
(* all in status 'game'.  Game.run calls update_game_logic in every pass   *)
(* of its loop, so FallFrame is taken again and again.                     *)
(***************************************************************************)
\* presses of SPACE delivered
MaxFallJumps == 4

InitFall ==
    /\ source = [kind |-> "file", settings |-> SmallFile]
    /\ data = LoadConfig(source).value
    /\ pc = "loop"
    /\ running = TRUE
    /\ game = GameInit(data)
    /\ last = "init"
    /\ prev = game
    /\ spawned = 0
    /\ calls = NoCalls

\* KEYDOWN of K_SPACE in status 'game'
FallJump ==
    /\ pc = "loop"
    /\ game.game_status = "game"
    /\ calls.jump < MaxFallJumps
    /\ game' = KeySpaceEvent(game, data)
    /\ calls' = [calls EXCEPT !.jump = @ + 1]
    /\ last' = "jump"
    /\ prev' = game
    /\ UNCHANGED <<source, data, pc, running, spawned>>

\* one pass of the loop of Game.run; calls.update holds the parity of the
\* number of passes made
FallFrame ==
    /\ pc = "loop"
    /\ game' = UpdateGameLogic(game)
    /\ calls' = [calls EXCEPT !.update = 1 - @]
    /\ last' = "tick"
    /\ prev' = game
    /\ UNCHANGED <<source, data, pc, running, spawned>>

NextFall == FallJump \/ FallFrame

SpecFall == InitFall /\ [][NextFall]_vars /\ WF_vars(FallFrame)

\* C17 (as claimed): once no more jumps are delivered, with no wall pair
\* ever created, the bird falls until check_bounds returns 'bottom' and the
\* status becomes 'menu', also from the ceiling (y = 0, speed_y = 0).
C17_EventuallyEnded == <>(game.game_status = "menu")

(***************************************************************************)
(* The bird's rect and its position (specification Spec).                  *)
(***************************************************************************)
\* C18 (as claimed): in every state, the first one and the one after a
\* restart included, the top of the bird's rect is y truncated to an
\* integer; a tick keeps the horizontal extent of the rect and moves its top
\* as it moves the truncated y.
C18_RectFollowsY ==
    /\ game.bird.rect.y = ToInt(game.bird.y)
    /\ ActiveTick =>
          /\ game.bird.rect.x = prev.bird.rect.x
          /\ game.bird.rect.w = prev.bird.rect.w
          /\ game.bird.rect.y - prev.bird.rect.y
                = ToInt(game.bird.y) - ToInt(prev.bird.y)

====
